---- MODULE Spec2Model ----
(***************************************************************************)
(* codelog: a model of src/codelog/cli.py.                                 *)
(*                                                                         *)
(* Strings are sequences of one-character strings, so that slicing,        *)
(* prefixes, splitting and regular-expression substitution are computed    *)
(* character by character as the Python code computes them.                *)
(***************************************************************************)
EXTENDS Integers, Sequences, FiniteSets, TLC

VARIABLES
    \* balance / Context.report on a list of per-repo strings
    sources, cap, balanced, reportText, balPc,
    \* fix on one line
    line, fixed, refixed, fixPc,
    \* the body of the loop of Context.messages on one repo
    repoName, gitOutput, yielded, msgPc,
    \* one run of the report or the fetch command
    config, history, cmd, pc, start, end, spans, dayIdx, repoIdx, messages,
    rows, queried, csvOut, pulls, stdout, exitStatus,
    \* the config file across runs of config init / track / edit
    file, lastOp, droppedDefault

balVars == <<sources, cap, balanced, reportText, balPc>>
fixVars == <<line, fixed, refixed, fixPc>>
msgVars == <<repoName, gitOutput, yielded, msgPc>>
runVars == <<config, history, cmd, pc, start, end, spans, dayIdx, repoIdx,
             messages, rows, queried, csvOut, pulls, stdout, exitStatus>>
cfgVars == <<file, lastOp, droppedDefault>>
vars == <<balVars, fixVars, msgVars, runVars, cfgVars>>

----------------------------------------------------------------------------
(* Bounds *)

MaxLen == 9        \* longest per-repo string handed to balance
MaxSources == 3    \* most per-repo strings handed to balance
MaxCap == 18       \* largest character budget handed to balance
MaxLineLen == 4    \* longest line handed to fix
MaxCommits == 3    \* most subject lines in one git log output
MaxRepos == 2      \* most tracked repos of the active project
MaxDay == 6        \* days are 0..MaxDay, day 0 is a Monday
SmallLimit == 24   \* a configured limit small enough to make balance truncate
MaxTracked == 2    \* most repos tracked under one project
TicksPerDay == 2   \* instants in one calendar day

----------------------------------------------------------------------------
(* Python string primitives *)

Min(a, b) == IF a < b THEN a ELSE b
Max(a, b) == IF a > b THEN a ELSE b

\* s[:k] : a negative k counts from the end of the string
Slice(s, k) ==
    LET stop == IF k >= 0 THEN Min(k, Len(s)) ELSE Max(Len(s) + k, 0)
    IN  SubSeq(s, 1, stop)

\* s.startswith(prefix)
StartsWith(s, prefix) ==
    /\ Len(prefix) <= Len(s)
    /\ SubSeq(s, 1, Len(prefix)) = prefix

\* sep.join(parts)
RECURSIVE Join(_, _)
Join(parts, sep) ==
    IF parts = <<>> THEN <<>>
    ELSE IF Len(parts) = 1 THEN parts[1]
    ELSE parts[1] \o sep \o Join(Tail(parts), sep)

Seq2Set(s) == {s[i] : i \in 1..Len(s)}

\* sum(len(source) for source in sources)
RECURSIVE SumLen(_)
SumLen(ss) == IF ss = <<>> THEN 0 ELSE Len(Head(ss)) + SumLen(Tail(ss))

Ellipsis == <<".", ".", ".">>
Space == <<" ">>

----------------------------------------------------------------------------
(* fix(line) *)

Quote == "\""
Newline == "\n"
Whitespace == {" ", Newline}

\* line.replace('"', "")
RemoveQuotes(s) == SelectSeq(s, LAMBDA ch : ch # Quote)

\* index of the last ")" that "\(.*\)" can reach from a "(" at s[1]: "."
\* does not match a newline, so the match stays on the line of s[1];
\* 0 when there is none
LastClose(s) ==
    LET nls == {j \in 1..Len(s) : s[j] = Newline}
        lineEnd == IF nls = {} THEN Len(s)
                   ELSE (CHOOSE j \in nls : \A k \in nls : j <= k) - 1
        closes == {j \in 2..lineEnd : s[j] = ")"}
    IN  IF closes = {} THEN 0
        ELSE CHOOSE j \in closes : \A k \in closes : k <= j

\* re.sub(r"\(.*\)", "", line): leftmost match first, each match greedy
RECURSIVE RemoveParens(_)
RemoveParens(s) ==
    IF s = <<>> THEN <<>>
    ELSE IF Head(s) = "(" /\ LastClose(s) > 0
         THEN RemoveParens(SubSeq(s, LastClose(s) + 1, Len(s)))
         ELSE <<Head(s)>> \o RemoveParens(Tail(s))

RECURSIVE LStrip(_)
LStrip(s) ==
    IF s # <<>> /\ Head(s) \in Whitespace THEN LStrip(Tail(s)) ELSE s

RECURSIVE RStrip(_)
RStrip(s) ==
    IF s # <<>> /\ s[Len(s)] \in Whitespace
    THEN RStrip(SubSeq(s, 1, Len(s) - 1)) ELSE s

\* line.strip()
Strip(s) == RStrip(LStrip(s))

\* re.sub(r"\s+", " ", line)
RECURSIVE CollapseWhitespace(_)
CollapseWhitespace(s) ==
    IF s = <<>> THEN <<>>
    ELSE IF Head(s) \in Whitespace
         THEN <<" ">> \o CollapseWhitespace(LStrip(s))
         ELSE <<Head(s)>> \o CollapseWhitespace(Tail(s))

\* the steps of fix in another order: strip first, substitute afterwards
fix_StripFirst(s) == CollapseWhitespace(RemoveParens(RemoveQuotes(Strip(s))))

fix(s) == Strip(CollapseWhitespace(RemoveParens(RemoveQuotes(s))))

----------------------------------------------------------------------------
(* valid(line, ignore) and the body of the loop of Context.messages *)

\* Config.ignore, the default list
DefaultIgnore ==
    << <<"i", "n", "d", "e", "x", " ", "o", "n">>,
       <<"W", "I", "P", " ", "o", "n">> >>

valid(l, ignore) ==
    /\ l # <<>>
    /\ ~\E i \in 1..Len(ignore) : StartsWith(l, ignore[i])

\* output.split("\n")
RECURSIVE Split(_)
Split(s) ==
    LET nls == {j \in 1..Len(s) : s[j] = Newline}
    IN  IF nls = {} THEN <<s>>
        ELSE LET j == CHOOSE k \in nls : \A m \in nls : k <= m
             IN  <<SubSeq(s, 1, j - 1)>> \o Split(SubSeq(s, j + 1, Len(s)))

MapFix(ls) == [i \in 1..Len(ls) |-> fix(ls[i])]

\* lines = [fix(line) for line in output.split("\n") if line]
\* lines = [line for line in lines if valid(line, self.config.ignore)]
FixedValidLines(output, ignore) ==
    SelectSeq(MapFix(SelectSeq(Split(output), LAMBDA l : l # <<>>)),
              LAMBDA l : valid(l, ignore))

MergeWord == <<"M", "e", "r", "g", "e">>
PRReviews == <<"P", "R", " ", "R", "e", "v", "i", "e", "w", "s">>
CommaSpace == <<",", " ">>

\* f"[{repo.name}]: "
RepoTag(name) == <<"[">> \o name \o <<"]", ":", " ">>

\* the merge branch with the marker put after the other lines
RepoMessage_MarkerLast(name, output, ignore) ==
    LET lines == FixedValidLines(output, ignore)
        non_merges == SelectSeq(lines, LAMBDA l : ~StartsWith(l, MergeWord))
    IN  IF lines = <<>> THEN <<>>
        ELSE IF Len(lines) > Len(non_merges)
             THEN <<RepoTag(name) \o Join(non_merges \o <<PRReviews>>, CommaSpace)>>
             ELSE <<RepoTag(name) \o Join(lines, CommaSpace)>>

\* what one iteration of the loop of Context.messages yields from a git log
\* output: a sequence of no string or one string
RepoMessage(name, output, ignore) ==
    LET lines == FixedValidLines(output, ignore)
        non_merges == SelectSeq(lines, LAMBDA l : ~StartsWith(l, MergeWord))
    IN  IF lines = <<>> THEN <<>>
        ELSE IF Len(lines) > Len(non_merges)
             THEN <<RepoTag(name) \o Join(<<PRReviews>> \o non_merges, CommaSpace)>>
             ELSE <<RepoTag(name) \o Join(lines, CommaSpace)>>

----------------------------------------------------------------------------
(* balance(sources, cap)  and  Context.report *)

\* cap // len(sources) - len(sources)
Even(ss, c) == (c \div Len(ss)) - Len(ss)

\* sum(len(source) - even for source in sources if len(source) < even)
RECURSIVE SumShort(_, _)
SumShort(ss, even) ==
    IF ss = <<>> THEN 0
    ELSE (IF Len(Head(ss)) < even THEN Len(Head(ss)) - even ELSE 0)
         + SumShort(Tail(ss), even)

\* sum(len(source) > even for source in sources)
RECURSIVE NumLong(_, _)
NumLong(ss, even) ==
    IF ss = <<>> THEN 0
    ELSE (IF Len(Head(ss)) > even THEN 1 ELSE 0) + NumLong(Tail(ss), even)

Extra(ss, even) == SumShort(ss, even) \div NumLong(ss, even)

balance(ss, c) ==
    IF SumLen(ss) < c THEN ss
    ELSE LET even == Even(ss, c)
         IN  IF \A i \in 1..Len(ss) : Len(ss[i]) >= even
             THEN [i \in 1..Len(ss) |-> Slice(ss[i], even - 3) \o Ellipsis]
             ELSE LET extra == Extra(ss, even)
                  IN  [i \in 1..Len(ss) |->
                         IF Len(ss[i]) > even
                         THEN Slice(ss[i], even + extra - 3) \o Ellipsis
                         ELSE ss[i]]

\* Context.report, once the messages have been collected
report(msgs, limit, default) ==
    IF msgs = <<>> /\ default # <<>> THEN default
    ELSE IF limit # 0 THEN Join(balance(msgs, limit), Space)
    ELSE Join(msgs, Space)

----------------------------------------------------------------------------
(* Inputs of the balance specification *)

Alphabet == <<"a", "b", "c">>

\* the string of length n whose i-th character tells i modulo 3
Str(n) == [i \in 1..n |-> Alphabet[((i - 1) % 3) + 1]]

SourceLists ==
    UNION { [1..n -> {Str(k) : k \in 0..MaxLen}] : n \in 1..MaxSources }

\* the worked example: lengths 5, 50, 50 (with cap = 40)
ExampleSources == <<Str(5), Str(50), Str(50)>>

\* the state of the variables of a specification that is not running
BalanceOff ==
    /\ sources = <<>> /\ cap = 0 /\ balanced = <<>> /\ reportText = <<>>
    /\ balPc = "off"
FixOff == line = <<>> /\ fixed = <<>> /\ refixed = <<>> /\ fixPc = "off"
MessagesOff ==
    repoName = <<>> /\ gitOutput = <<>> /\ yielded = <<>> /\ msgPc = "off"
RunOff ==
    /\ config = [limit |-> 0] /\ history = <<>> /\ cmd = "none" /\ pc = "off"
    /\ start = 0 /\ end = 0 /\ spans = <<>> /\ dayIdx = 0 /\ repoIdx = 0
    /\ messages = <<>> /\ rows = <<>> /\ queried = <<>> /\ csvOut = <<>>
    /\ pulls = <<>> /\ stdout = <<>> /\ exitStatus = 0

NoOp == [op |-> "none", ok |-> TRUE, project |-> "", name |-> "", cwd |-> ""]
ConfigOff == file = <<>> /\ lastOp = NoOp /\ droppedDefault = FALSE

InitBalance ==
    /\ \/ sources \in SourceLists /\ cap \in 1..MaxCap
       \/ sources = ExampleSources /\ cap = 40
    /\ balanced = <<>>
    /\ reportText = <<>>
    /\ balPc = "input"
    /\ FixOff /\ MessagesOff /\ RunOff /\ ConfigOff

ApplyBalance ==
    /\ balPc = "input"
    /\ balanced' = balance(sources, cap)
    /\ balPc' = "balanced"
    /\ UNCHANGED <<sources, cap, reportText, fixVars, msgVars, runVars, cfgVars>>

ApplyReport ==
    /\ balPc = "balanced"
    /\ reportText' = report(sources, cap, <<>>)
    /\ balPc' = "reported"
    /\ UNCHANGED <<sources, cap, balanced, fixVars, msgVars, runVars, cfgVars>>

NextBalance == ApplyBalance \/ ApplyReport

SpecBalance == InitBalance /\ [][NextBalance]_vars

----------------------------------------------------------------------------
(* The three cases of balance, as the code distinguishes them *)

NoOpCase(ss, c) == SumLen(ss) < c
UniformCase(ss, c) ==
    /\ ~NoOpCase(ss, c)
    /\ \A i \in 1..Len(ss) : Len(ss[i]) >= Even(ss, c)
WeightedCase(ss, c) == ~NoOpCase(ss, c) /\ ~UniformCase(ss, c)

\* the first k characters of s (none when k <= 0)
First(s, k) == SubSeq(s, 1, Min(Max(k, 0), Len(s)))

\* C1: for a non-empty list of messages and a positive limit, the text
\* returned by Context.report is at most limit characters long.
C1_ReportWithinLimit ==
    balPc = "reported" => Len(reportText) <= cap

\* C2: in the weighted case extra = floor(sum over short strings of
\* (even - len) / number of long strings); every string longer than even
\* becomes its first (even + extra - 3) characters plus "...", the others are
\* untouched.
ClaimedExtra(ss, even) == (0 - SumShort(ss, even)) \div NumLong(ss, even)

C2_WeightedTruncation ==
    (balPc # "input" /\ WeightedCase(sources, cap)) =>
        LET even == Even(sources, cap)
            extra == ClaimedExtra(sources, even)
        IN  \A i \in 1..Len(sources) :
                balanced[i] = IF Len(sources[i]) > even
                              THEN First(sources[i], even + extra - 3) \o Ellipsis
                              ELSE sources[i]

\* C3: in the uniform case every output is the first (even - 3) characters
\* of its input plus "...", for every even (no characters when even <= 3).
C3_UniformTruncation ==
    (balPc # "input" /\ UniformCase(sources, cap)) =>
        \A i \in 1..Len(sources) :
            balanced[i] = First(sources[i], Even(sources, cap) - 3) \o Ellipsis

----------------------------------------------------------------------------
(* Inputs of the fix specification *)

FixAlphabet == {Quote, "(", ")", " ", Newline, "a"}

Lines == UNION { [1..n -> FixAlphabet] : n \in 0..MaxLineLen }

InitFix ==
    /\ line \in Lines
    /\ fixed = <<>> /\ refixed = <<>>
    /\ fixPc = "input"
    /\ BalanceOff /\ MessagesOff /\ RunOff /\ ConfigOff

ApplyFix ==
    /\ fixPc = "input"
    /\ fixed' = fix(line)
    /\ fixPc' = "once"
    /\ UNCHANGED <<line, refixed, balVars, msgVars, runVars, cfgVars>>

ApplyFixAgain ==
    /\ fixPc = "once"
    /\ refixed' = fix(fixed)
    /\ fixPc' = "twice"
    /\ UNCHANGED <<line, fixed, balVars, msgVars, runVars, cfgVars>>

NextFix == ApplyFix \/ ApplyFixAgain

SpecFix == InitFix /\ [][NextFix]_vars

HasNewline(s) == \E i \in 1..Len(s) : s[i] = Newline

\* C4 as stated: fix(fix(s)) = fix(s) for every s, newlines included.
C4_FixIdempotent ==
    fixPc = "twice" => refixed = fixed

\* C4 amended: fix(fix(s)) = fix(s) for every s without a newline, as every
\* line that Context.messages hands to fix is (it comes from split on
\* newline).
C4_FixIdempotentOnLines ==
    (fixPc = "twice" /\ ~HasNewline(line)) => refixed = fixed

\* a one-line input with quotes, a parenthesised run and surplus space has
\* been fixed twice, and the first fix changed it
C4_Witness ==
    /\ fixPc = "twice"
    /\ ~HasNewline(line)
    /\ \E i \in 1..Len(line) : line[i] = "("
    /\ \E i \in 1..Len(line) : line[i] = ")"
    /\ \E i \in 1..Len(line) : line[i] = " "
    /\ fixed # line
    /\ fixed # <<>>
    /\ \A i \in 1..Len(fixed) : fixed[i] # "("

----------------------------------------------------------------------------
(* Inputs of the messages specification *)

\* commit subjects as git log prints them
SubjectMerge == <<"M", "e", "r", "g", "e", " ", "#", "1">>
SubjectFix == <<"F", "i", "x">>
SubjectStash == <<"W", "I", "P", " ", "o", "n", " ", "x">>
SubjectIndex == <<Quote, "i", "n", "d", "e", "x", " ", "o", "n", " ", "x", Quote>>
SubjectParens == <<"(", "t", "a", "g", ")">>
SubjectQuoted == <<"A", "d", "d", " ", " ", Quote, "x", Quote, " ", "(", "#", "2", ")">>
SubjectDecoratedMerge == <<"(", "x", ")", " ", "M", "e", "r", "g", "e", "d">>

Subjects ==
    {SubjectMerge, SubjectFix, SubjectStash, SubjectIndex, SubjectParens,
     SubjectQuoted, SubjectDecoratedMerge}

RepoNames == {<<"r", "1">>, <<"r", "2">>}

\* git log output: the subjects, one per line
GitOutputs ==
    { Join(ls, <<Newline>>) :
        ls \in UNION { [1..n -> Subjects] : n \in 0..MaxCommits } }

InitMessages ==
    /\ repoName \in RepoNames
    /\ gitOutput \in GitOutputs
    /\ yielded = <<>>
    /\ msgPc = "input"
    /\ BalanceOff /\ FixOff /\ RunOff /\ ConfigOff

ApplyRepoMessage ==
    /\ msgPc = "input"
    /\ yielded' = RepoMessage(repoName, gitOutput, DefaultIgnore)
    /\ msgPc' = "yielded"
    /\ UNCHANGED <<repoName, gitOutput, balVars, fixVars, runVars, cfgVars>>

NextMessages == ApplyRepoMessage

SpecMessages == InitMessages /\ [][NextMessages]_vars

IsMerge(l) == StartsWith(l, MergeWord)

\* C10: with the repo's fixed and valid lines: if one starts with "Merge" the
\* output is "[name]: " plus the ", " join of one "PR Reviews" followed by the
\* non-merge lines in their order; if none does, "[name]: " plus the join of
\* all lines; if no line survives, the repo yields nothing.
C10_MergeCollapsing ==
    msgPc = "yielded" =>
        LET lines == FixedValidLines(gitOutput, DefaultIgnore)
            others == SelectSeq(lines, LAMBDA l : ~IsMerge(l))
        IN  IF lines = <<>> THEN yielded = <<>>
            ELSE IF \E i \in 1..Len(lines) : IsMerge(lines[i])
            THEN yielded = <<RepoTag(repoName)
                              \o Join(<<PRReviews>> \o others, CommaSpace)>>
            ELSE yielded = <<RepoTag(repoName) \o Join(lines, CommaSpace)>>

\* a repo with a merge line and two other lines has yielded its string, and
\* some raw line was dropped by the filter
C10_Witness ==
    /\ msgPc = "yielded"
    /\ Len(yielded) = 1
    /\ LET lines == FixedValidLines(gitOutput, DefaultIgnore)
       IN  /\ \E i \in 1..Len(lines) : IsMerge(lines[i])
           /\ \E i \in 1..Len(lines) : ~IsMerge(lines[i])
           /\ Len(lines) < Len(Split(gitOutput))

----------------------------------------------------------------------------
(* One run of `codelog report` or `codelog fetch` *)

\* Config defaults
DefaultHours == 8
DefaultDummy ==
    <<"P", "R", " ", "R", "e", "v", "i", "e", "w", "s", ",", " ",
      "n", "o", "n", " ", "c", "o", "d", "i", "n", "g", " ",
      "w", "o", "r", "k">>

\* instants are integers, TicksPerDay of them in a calendar day
Floor(t) == (t \div TicksPerDay) * TicksPerDay
Ceil(t) == Floor(t) + TicksPerDay - 1
DateOf(t) == t \div TicksPerDay

\* Arrow.weekday(): Monday is 0, Saturday 5, Sunday 6
Weekday(t) == DateOf(t) % 7

\* Arrow.span_range("day", s, e): the (floor, ceil) span of every day whose
\* floor is at or before e, starting at the day of s
RECURSIVE SpanRange(_, _)
SpanRange(s, e) ==
    IF Floor(s) > e THEN <<>>
    ELSE <<[from |-> Floor(s), until |-> Ceil(s)]>>
         \o SpanRange(Floor(s) + TicksPerDay, e)

\* the filter of the list comprehension with only Sunday left out
KeepSpan_SundayOnly(span) == Weekday(span.from) \notin {6}

\* if _from.weekday() not in (5, 6)
KeepSpan(span) == Weekday(span.from) \notin {5, 6}

\* the spans report iterates over
ReportSpans(s, e) == SelectSeq(SpanRange(Floor(s), Ceil(e)), KeepSpan)

Header == <<"date", "text", "hours">>

\* if rows: writer.writeheader(); writer.writerows(rows)
WriteCsv(rs) == IF rs = <<>> THEN <<>> ELSE <<Header>> \o rs

Row(span, msgs) ==
    [date |-> DateOf(span.from),
     text |-> report(msgs, config.limit, config.dummy),
     hours |-> config.hours]

AllRepos ==
    [i \in 1..(MaxRepos + 1) |-> [name |-> <<"r", ToString(i)>>, path |-> i]]

\* what the configured author committed to a repo: nothing; on every even
\* day a fix at the first instant and merges at the later ones; a stash at
\* every instant
HistoryKinds == {"none", "merges", "stash"}

CommitAt(kind, t) ==
    CASE kind = "stash" -> <<SubjectStash>>
      [] kind = "merges" /\ DateOf(t) % 2 = 0 ->
            IF t = Floor(t) THEN <<SubjectFix>> ELSE <<SubjectMerge>>
      [] OTHER -> <<>>

\* the subjects committed from instant after to instant t, newest first
RECURSIVE CommitsBack(_, _, _)
CommitsBack(kind, after, t) ==
    IF t < after THEN <<>>
    ELSE CommitAt(kind, t) \o CommitsBack(kind, after, t - 1)

\* git log --pretty=format:%s --all --author=... --before=... --after=...
GitLog(kind, after, before) ==
    Join(CommitsBack(kind, after, before), <<Newline>>)

AllFetched == "All repos fetched"

InitRun ==
    /\ config \in { [author |-> "me", ignore |-> DefaultIgnore,
                     limit |-> SmallLimit, dummy |-> DefaultDummy,
                     hours |-> DefaultHours,
                     repos |-> SubSeq(AllRepos, 1, n)] : n \in 0..MaxRepos }
    /\ history \in [1..Len(config.repos) -> HistoryKinds]
    /\ cmd = "none" /\ pc = "idle"
    /\ start = 0 /\ end = 0 /\ spans = <<>> /\ dayIdx = 0 /\ repoIdx = 0
    /\ messages = <<>> /\ rows = <<>> /\ queried = <<>> /\ csvOut = <<>>
    /\ pulls = <<>> /\ stdout = <<>> /\ exitStatus = 0
    /\ BalanceOff /\ FixOff /\ MessagesOff /\ ConfigOff

\* report, up to its first git log call; with no span or no repo there is
\* no call and the command runs to its end
ReportStart(f, t) ==
    /\ pc = "idle"
    /\ cmd' = "report"
    /\ start' = f /\ end' = t
    /\ LET sp == ReportSpans(f, t)
       IN  /\ spans' = sp
           /\ IF sp = <<>> \/ config.repos = <<>>
              THEN LET rs == [i \in 1..Len(sp) |-> Row(sp[i], <<>>)]
                   IN  /\ rows' = rs
                       /\ csvOut' = WriteCsv(rs)
                       /\ dayIdx' = Len(sp) + 1 /\ repoIdx' = 1
                       /\ pc' = "exited" /\ exitStatus' = 0
              ELSE /\ rows' = <<>>
                   /\ dayIdx' = 1 /\ repoIdx' = 1
                   /\ pc' = "collect"
                   /\ UNCHANGED <<csvOut, exitStatus>>
    /\ messages' = <<>>
    /\ UNCHANGED <<config, history, queried, pulls, stdout,
                   balVars, fixVars, msgVars, cfgVars>>

Query(rc, out) ==
    [repo |-> config.repos[repoIdx].path,
     after |-> spans[dayIdx].from, before |-> spans[dayIdx].until,
     rc |-> rc, out |-> out]

\* git log of the current repo and day exits 0 with the subjects of the day
\* window; the command runs on to its next git log call, or to its end
GitLogReturn ==
    /\ pc = "collect"
    /\ LET out == GitLog(history[config.repos[repoIdx].path],
                         spans[dayIdx].from, spans[dayIdx].until)
           msgs == messages
                    \o RepoMessage(config.repos[repoIdx].name, out, config.ignore)
       IN  /\ queried' = Append(queried, Query(0, out))
           /\ IF repoIdx < Len(config.repos)
              THEN /\ messages' = msgs
                   /\ repoIdx' = repoIdx + 1
                   /\ UNCHANGED <<dayIdx, rows, csvOut, pc, exitStatus>>
              ELSE LET rs == Append(rows, Row(spans[dayIdx], msgs))
                   IN  /\ rows' = rs
                       /\ messages' = <<>>
                       /\ repoIdx' = 1
                       /\ dayIdx' = dayIdx + 1
                       /\ IF dayIdx < Len(spans)
                          THEN UNCHANGED <<csvOut, pc, exitStatus>>
                          ELSE /\ csvOut' = WriteCsv(rs)
                               /\ pc' = "exited" /\ exitStatus' = 0
    /\ UNCHANGED <<config, history, cmd, start, end, spans, pulls, stdout,
                   balVars, fixVars, msgVars, cfgVars>>

\* a failed git log that is skipped: the repo yields nothing, the run goes on
GitLogFail_Skip ==
    /\ pc = "collect"
    /\ queried' = Append(queried, Query(1, <<>>))
    /\ IF repoIdx < Len(config.repos)
       THEN /\ repoIdx' = repoIdx + 1
            /\ UNCHANGED <<dayIdx, messages, rows, csvOut, pc, exitStatus>>
       ELSE LET rs == Append(rows, Row(spans[dayIdx], messages))
            IN  /\ rows' = rs
                /\ messages' = <<>>
                /\ repoIdx' = 1
                /\ dayIdx' = dayIdx + 1
                /\ IF dayIdx < Len(spans)
                   THEN UNCHANGED <<csvOut, pc, exitStatus>>
                   ELSE /\ csvOut' = WriteCsv(rs)
                        /\ pc' = "exited" /\ exitStatus' = 0
    /\ UNCHANGED <<config, history, cmd, start, end, spans, pulls, stdout,
                   balVars, fixVars, msgVars, cfgVars>>

\* git log of the current repo and day exits non-zero: check_output raises
\* CalledProcessError and the handler calls sys.exit(1)
GitLogFail ==
    /\ pc = "collect"
    /\ queried' = Append(queried, Query(1, <<>>))
    /\ pc' = "exited" /\ exitStatus' = 1
    /\ UNCHANGED <<config, history, cmd, start, end, spans, dayIdx, repoIdx,
                   messages, rows, csvOut, pulls, stdout,
                   balVars, fixVars, msgVars, cfgVars>>

\* fetch, up to its first git pull; with no repo it runs to its end
FetchStart ==
    /\ pc = "idle"
    /\ cmd' = "fetch"
    /\ repoIdx' = 1
    /\ IF config.repos = <<>>
       THEN /\ stdout' = <<AllFetched>>
            /\ pc' = "exited" /\ exitStatus' = 0
       ELSE /\ pc' = "pulling"
            /\ UNCHANGED <<stdout, exitStatus>>
    /\ UNCHANGED <<config, history, start, end, spans, dayIdx, messages, rows,
                   queried, csvOut, pulls, balVars, fixVars, msgVars, cfgVars>>

\* git pull of the current repo exits with rc: subprocess.call returns rc,
\* raises nothing, and the loop goes on to the next repo, or fetch to its end
GitPullReturn(rc) ==
    /\ pc = "pulling"
    /\ pulls' = Append(pulls, [repo |-> config.repos[repoIdx].path, rc |-> rc])
    /\ repoIdx' = repoIdx + 1
    /\ IF repoIdx < Len(config.repos)
       THEN UNCHANGED <<stdout, pc, exitStatus>>
       ELSE /\ stdout' = <<AllFetched>>
            /\ pc' = "exited" /\ exitStatus' = 0
    /\ UNCHANGED <<config, history, cmd, start, end, spans, dayIdx, messages,
                   rows, queried, csvOut, balVars, fixVars, msgVars, cfgVars>>

Instants == 0..(MaxDay * TicksPerDay + TicksPerDay - 1)

Next ==
    \/ \E f \in Instants, t \in Instants : ReportStart(f, t)
    \/ GitLogReturn
    \/ GitLogFail
    \/ FetchStart
    \/ \E rc \in {0, 1} : GitPullReturn(rc)

Spec == InitRun /\ [][Next]_vars

\* C7: a git pull that exits non-zero ends fetch at once with a non-zero
\* exit status: no later repo is pulled and "All repos fetched" is not printed.
C7_FetchFailFast ==
    \A i \in 1..Len(pulls) :
        pulls[i].rc # 0 =>
            /\ i = Len(pulls)
            /\ pc = "exited" /\ exitStatus # 0
            /\ stdout = <<>>

\* C8: a git log that exits non-zero, for any repo on any day, ends report
\* with exit status 1 and nothing written, whatever was collected before.
C8_ReportFailFast ==
    \A i \in 1..Len(queried) :
        queried[i].rc # 0 =>
            /\ i = Len(queried)
            /\ pc = "exited" /\ exitStatus = 1
            /\ csvOut = <<>>

\* git log failed on the second repo of a later day, after a whole day's row
\* and the day's first repo had been collected
C8_Witness ==
    /\ cmd = "report" /\ pc = "exited"
    /\ queried # <<>> /\ queried[Len(queried)].rc # 0
    /\ rows # <<>>
    /\ repoIdx > 1
    /\ messages # <<>>

\* the messages of the repos from index j on, from what was committed in
\* the window of day date
RECURSIVE DayMessages(_, _)
DayMessages(date, j) ==
    IF j > Len(config.repos) THEN <<>>
    ELSE RepoMessage(config.repos[j].name,
                     GitLog(history[config.repos[j].path],
                            date * TicksPerDay, (date + 1) * TicksPerDay - 1),
                     config.ignore)
         \o DayMessages(date, j + 1)

\* C9: report emits one row per day of [from, to] that is not a Saturday or
\* a Sunday, in ascending order of date, each row's text computed from the
\* git logs of that day's own window [start of day, end of day]; a Saturday
\* alone gives no row, Monday to Friday gives 5 rows.
C9_RowPerWeekday ==
    (cmd = "report" /\ pc = "exited" /\ exitStatus = 0) =>
        LET days == {d \in DateOf(start)..DateOf(end) : d % 7 \notin {5, 6}}
            n == Len(config.repos)
        IN  /\ Len(rows) = Cardinality(days)
            /\ \A i \in 1..Len(rows) : rows[i].date \in days
            /\ \A i, j \in 1..Len(rows) : i < j => rows[i].date < rows[j].date
            /\ csvOut = IF rows = <<>> THEN <<>> ELSE <<Header>> \o rows
            /\ Len(queried) = n * Len(rows)
            /\ \A i \in 1..Len(rows) :
                 LET qs == SubSeq(queried, (i - 1) * n + 1, i * n)
                 IN  /\ \A j \in 1..n :
                           /\ qs[j].repo = config.repos[j].path
                           /\ qs[j].after = rows[i].date * TicksPerDay
                           /\ qs[j].before = (rows[i].date + 1) * TicksPerDay - 1
                     /\ rows[i].text =
                           report(DayMessages(rows[i].date, 1),
                                  config.limit, config.dummy)
                     /\ rows[i].hours = config.hours
            /\ (DateOf(start) = 5 /\ DateOf(end) = 5) => rows = <<>>
            /\ (DateOf(start) = 0 /\ DateOf(end) = 4) => Len(rows) = 5

\* a report from a Monday to the Sunday after it, over two repos, has ended
\* with five rows, one of them with collected text and one with the default
C9_Witness ==
    /\ cmd = "report" /\ pc = "exited" /\ exitStatus = 0
    /\ DateOf(start) = 0 /\ DateOf(end) = 6
    /\ start # Floor(start) /\ end # Ceil(end)
    /\ Len(config.repos) = 2
    /\ Len(rows) = 5
    /\ \E i \in 1..Len(rows) : rows[i].text = config.dummy
    /\ \E i \in 1..Len(rows) : rows[i].text # config.dummy

----------------------------------------------------------------------------
(* The config file under `config init`, `config track`, `config edit` *)

DefaultDatefmt == "%d/%m/%Y"
DefaultLimit == 400

\* the file system: a git working tree, a subdirectory of it, a directory
\* outside any repository, and a path that does not exist
Paths == {"/w/a", "/w/a/sub", "/tmp"}
GonePath == "/gone"
Exists(path) == path \in Paths
InRepo(path) == path \in {"/w/a", "/w/a/sub"}

\* cgr(cwd): git rev-parse --show-toplevel, for a cwd inside a repository
cgr(cwd) == IF cwd = "/w/a/sub" THEN "/w/a" ELSE cwd

\* os.path.basename
Basename(path) ==
    CASE path = "/w/a" -> "a"
      [] path = "/w/a/sub" -> "sub"
      [] OTHER -> "tmp"

ProjectNames == {"default", "work"}

\* Repo.existing_git_repo passes
RepoValid(r) == Exists(r.path) /\ InRepo(r.path)

\* Repo(**r), for a valid r: the validator returns the top level
Repo(r) == [name |-> r.name, path |-> cgr(r.path)]

\* Config(**doc) raises no ValidationError
DocValid(doc) ==
    /\ "author" \in DOMAIN doc
    /\ "projects" \in DOMAIN doc =>
          \A q \in DOMAIN doc.projects :
              \A i \in 1..Len(doc.projects[q]) : RepoValid(doc.projects[q][i])

\* Config(**doc), for a valid doc: absent fields take their defaults
Config(doc) ==
    [author |-> doc.author,
     ignore |-> IF "ignore" \in DOMAIN doc THEN doc.ignore ELSE DefaultIgnore,
     limit |-> IF "limit" \in DOMAIN doc THEN doc.limit ELSE DefaultLimit,
     dummy |-> IF "dummy" \in DOMAIN doc THEN doc.dummy ELSE DefaultDummy,
     datefmt |-> IF "datefmt" \in DOMAIN doc THEN doc.datefmt ELSE DefaultDatefmt,
     hours |-> IF "hours" \in DOMAIN doc THEN doc.hours ELSE DefaultHours,
     projects |-> IF "projects" \in DOMAIN doc
                  THEN [q \in DOMAIN doc.projects |->
                          [i \in 1..Len(doc.projects[q]) |->
                              Repo(doc.projects[q][i])]]
                  ELSE [default |-> <<>>]]

Op(op, ok, project, name, cwd) ==
    [op |-> op, ok |-> ok, project |-> project, name |-> name, cwd |-> cwd]

InitConfig ==
    /\ file = <<>>
    /\ lastOp = NoOp
    /\ droppedDefault = FALSE
    /\ BalanceOff /\ FixOff /\ MessagesOff /\ RunOff

\* config init: git config --global user.name prints author, or exits
\* non-zero when gitOk is false
init(gitOk, author) ==
    /\ IF gitOk
       THEN file' = <<Config([author |-> author])>>
       ELSE UNCHANGED file
    /\ lastOp' = Op("init", gitOk, "", "", "")
    /\ UNCHANGED <<droppedDefault, balVars, fixVars, msgVars, runVars>>

\* track writing only the active project's list
track_OnlyActive(project, name, cwd) ==
    /\ IF file = <<>> \/ ~DocValid(file[1]) \/ ~InRepo(cwd)
       THEN /\ UNCHANGED file
            /\ lastOp' = Op("track", FALSE, project, "", "")
       ELSE LET original == Config(file[1])
                path == cgr(cwd)
                nm == IF name = "" THEN Basename(path) ELSE name
                repos == IF project \in DOMAIN original.projects
                         THEN original.projects[project] ELSE <<>>
            IN  /\ Len(repos) < MaxTracked
                /\ file' = <<Config([original EXCEPT !.projects =
                       [q \in {project} |->
                           repos \o <<[name |-> nm, path |-> path]>>]])>>
                /\ lastOp' = Op("track", TRUE, project, name, cwd)
    /\ UNCHANGED <<droppedDefault, balVars, fixVars, msgVars, runVars>>

\* track replacing an entry of the same path instead of adding a second one
track_Dedup(project, name, cwd) ==
    /\ IF file = <<>> \/ ~DocValid(file[1]) \/ ~InRepo(cwd)
       THEN /\ UNCHANGED file
            /\ lastOp' = Op("track", FALSE, project, "", "")
       ELSE LET original == Config(file[1])
                path == cgr(cwd)
                nm == IF name = "" THEN Basename(path) ELSE name
                repos == IF project \in DOMAIN original.projects
                         THEN original.projects[project] ELSE <<>>
            IN  /\ Len(repos) < MaxTracked
                /\ file' = <<Config([original EXCEPT !.projects =
                       [q \in DOMAIN original.projects \cup {project} |->
                           IF q = project
                           THEN SelectSeq(repos, LAMBDA r : r.path # path)
                                \o <<[name |-> nm, path |-> path]>>
                           ELSE original.projects[q]]])>>
                /\ lastOp' = Op("track", TRUE, project, name, cwd)
    /\ UNCHANGED <<droppedDefault, balVars, fixVars, msgVars, runVars>>

\* config track [--name name] under --project project, run in directory cwd
\* (name "" stands for no --name option)
track(project, name, cwd) ==
    /\ IF file = <<>> \/ ~DocValid(file[1]) \/ ~InRepo(cwd)
       THEN /\ UNCHANGED file
            /\ lastOp' = Op("track", FALSE, project, "", "")
       ELSE LET original == Config(file[1])
                path == cgr(cwd)
                nm == IF name = "" THEN Basename(path) ELSE name
                repos == IF project \in DOMAIN original.projects
                         THEN original.projects[project] ELSE <<>>
            IN  /\ Len(repos) < MaxTracked
                /\ file' = <<Config([original EXCEPT !.projects =
                       [q \in DOMAIN original.projects \cup {project} |->
                           IF q = project
                           THEN repos \o <<[name |-> nm, path |-> path]>>
                           ELSE original.projects[q]]])>>
                /\ lastOp' = Op("track", TRUE, project, name, cwd)
    /\ UNCHANGED <<droppedDefault, balVars, fixVars, msgVars, runVars>>

\* what the user can leave in the editor: documents that parse as TOML ...
EditDocs ==
    { [author |-> "me"],
      [author |-> "me", limit |-> SmallLimit,
       projects |-> [work |-> <<[name |-> "s", path |-> "/w/a/sub"]>>]],
      [author |-> "you", projects |-> [default |-> <<>>, work |-> <<>>]],
      [limit |-> SmallLimit],
      [author |-> "me",
       projects |-> [default |-> <<[name |-> "t", path |-> "/tmp"]>>]],
      [author |-> "me",
       projects |-> [default |-> <<[name |-> "g", path |-> GonePath]>>]] }

\* ... and text that does not
NotToml == [syntax |-> "error"]

\* config edit, the editor returning doc: toml.loads raises TomlDecodeError,
\* Config(**doc) raises ValidationError, or the new config is written
edit(doc) ==
    /\ IF doc = NotToml \/ ~DocValid(doc)
       THEN /\ UNCHANGED <<file, droppedDefault>>
            /\ lastOp' = Op("edit", FALSE, "", "", "")
       ELSE /\ file' = <<Config(doc)>>
            /\ droppedDefault' =
                  (\/ droppedDefault
                   \/ /\ "projects" \in DOMAIN doc
                      /\ "default" \notin DOMAIN doc.projects)
            /\ lastOp' = Op("edit", TRUE, "", "", "")
    /\ UNCHANGED <<balVars, fixVars, msgVars, runVars>>

NextConfig ==
    \/ \E gitOk \in BOOLEAN, author \in {"me"} : init(gitOk, author)
    \/ \E project \in ProjectNames, name \in {"", "x"}, cwd \in Paths :
          track(project, name, cwd)
    \/ \E doc \in EditDocs \cup {NotToml} \cup Seq2Set(file) : edit(doc)

SpecConfig == InitConfig /\ [][NextConfig]_vars

HasDefault(f) == "default" \in DOMAIN f[1].projects

\* C5 as stated: after any successful init, track or edit the persisted
\* projects mapping contains "default".
C5_DefaultAlwaysPresent ==
    file # <<>> => HasDefault(file)

\* C5 amended: the persisted projects mapping contains "default" after any
\* sequence of successful init, track and edit operations in which no edit
\* saved a document whose projects table lacks "default".
C5_DefaultKeptByInitAndTrack ==
    (file # <<>> /\ ~droppedDefault) => HasDefault(file)

\* a config whose "work" project has a tracked repo went through an edit
\* that kept "default"
C5_Witness ==
    /\ lastOp.op = "edit" /\ lastOp.ok
    /\ ~droppedDefault
    /\ file # <<>>
    /\ "work" \in DOMAIN file[1].projects
    /\ file[1].projects["work"] # <<>>

\* C6: a successful track leaves the active project's list equal to its
\* previous list (empty for a new project) plus one Repo at the end, also when
\* the path is already listed, and changes no other project and no other
\* field.
C6_TrackAppendOnly ==
    [][(lastOp'.op = "track" /\ lastOp'.ok) =>
         /\ file # <<>> /\ file' # <<>>
         /\ LET old == file[1]
                new == file'[1]
                p == lastOp'.project
                path == cgr(lastOp'.cwd)
                added == [name |-> IF lastOp'.name = "" THEN Basename(path)
                                   ELSE lastOp'.name,
                          path |-> path]
            IN  /\ DOMAIN new.projects = DOMAIN old.projects \cup {p}
                /\ new.projects[p] =
                     (IF p \in DOMAIN old.projects THEN old.projects[p]
                      ELSE <<>>) \o <<added>>
                /\ \A q \in DOMAIN old.projects \ {p} :
                       new.projects[q] = old.projects[q]
                /\ new.author = old.author /\ new.ignore = old.ignore
                /\ new.limit = old.limit /\ new.dummy = old.dummy
                /\ new.datefmt = old.datefmt /\ new.hours = old.hours]_vars

\* track has just added a second entry of a path already listed, under a
\* project other than a non-empty "default"
C6_Witness ==
    /\ lastOp.op = "track" /\ lastOp.ok /\ lastOp.project = "work"
    /\ file # <<>>
    /\ "default" \in DOMAIN file[1].projects
    /\ file[1].projects["default"] # <<>>
    /\ LET l == file[1].projects["work"]
       IN  Len(l) = 2 /\ l[1].path = l[2].path

====
